---- MODULE Spec2Model ----
(***************************************************************************)
(* A model of the two exercise files of dilling/rust-web:                  *)
(*   src/src/persistence.rs  the TodoRepo trait, its Postgres              *)
(*                           implementation and the axum handlers over it  *)
(*   src/src/context.rs      the currency-conversion routers that share an *)
(*                           exchange rate with their handlers             *)
(* Each part has its own specification (SpecTodo, SpecRate, SpecRouters);  *)
(* a specification leaves the variables of the other parts unchanged.      *)
(***************************************************************************)
EXTENDS Integers, Sequences, FiniteSets, TLC

VARIABLES
    todos,      \* the todos table: a set of rows
    seq,        \* the table's id sequence: the last id it handed out
    clock,      \* the database's clock, read by created_at's default
    last,       \* the last write request on the todo API and its outcome
    read,       \* the reads answered since that write: <<>> or <<record>>
    router,     \* which exercise's Router serves the conversion requests
    rate,       \* the shared gbp_to_usd_rate (the f64 inside the Mutex)
    permits,    \* the Mutex's semaphore: 1 when free, 0 when a guard is live
    pc,         \* per request: where its handler is
    path,       \* per request: the route it was sent to
    body,       \* per request: its body, a sequence of characters
    local,      \* per request: new_rate (set) or the rate read through the guard
    resp,       \* per request: the handler's return value, <<>> before it has one
    lastSet,    \* the rate written by the set request that completed last
    quiet,      \* per conversion: the completed rate it started after, while
                \* no set request has been in flight since
    users,      \* UserState.users: the Vec<User> inside the Mutex
    ulast,      \* the last create/update/delete call on the users and its result
    uread       \* the get_user calls answered since: <<>> or <<record>>

todoVars == <<todos, seq, clock, last, read>>
rateVars == <<router, rate, permits, pc, path, body, local, resp, lastSet, quiet>>
userVars == <<users, ulast, uread>>
vars == <<todos, seq, clock, last, read,
          router, rate, permits, pc, path, body, local, resp, lastSet, quiet,
          users, ulast, uread>>

(***************************************************************************)
(* Bounds and input sets of the todo model.                                *)
(***************************************************************************)
\* How many rows the model inserts before it stops creating.
MaxTodos == 2

Titles == {"", "t"}
Descriptions == {"", "d"}
\* The descriptions an update request may carry.
NewDescriptions == {"d"}
\* Identifiers a request may name. Each is absent from the table before its
\* insert and after its delete.
Ids == 1..MaxTodos

\* Option<T>: None is the empty sequence, Some(x) the one-element sequence.
None == <<>>
Some(x) == <<x>>
IsSome(o) == Len(o) = 1
Opt(S) == {None} \cup {Some(x) : x \in S}

\* COALESCE($n, column): the parameter when it is not NULL, else the column.
Coalesce(param, column) == IF IsSome(param) THEN param[1] ELSE column

\* The rows "where id = $1" selects.
WhereId(table, id) == {r \in table : r.id = id}

\* nextval of the id sequence behind todos.id.
NextVal(s) == s + 1

\* now() as the created_at default reads it: the pool holds one connection,
\* so inserts run one after another and each sees a later time.
Now(c) == c + 1

\* A variant of InsertedRow that binds $1 and $2 in the wrong order.
InsertedRowSwapped(id, title, description, done, now) ==
    [id |-> id, title |-> description, description |-> title,
     done |-> done, created_at |-> now]

\* The row INSERT INTO todos (title, description, done) VALUES ($1, $2, $3)
\* stores: id and created_at come from the column defaults.
InsertedRow(id, title, description, done, now) ==
    [id |-> id, title |-> title, description |-> description,
     done |-> done, created_at |-> now]

\* A variant of UpdatedRow that writes the default for an absent title
\* (title = $1 with unwrap_or_default, no COALESCE).
UpdatedRowNoCoalesce(r, title, description, done) ==
    [r EXCEPT !.title = IF IsSome(title) THEN title[1] ELSE "",
              !.description = Coalesce(description, r.description),
              !.done = Coalesce(done, r.done)]

\* The row UPDATE todos SET title = COALESCE($1, title), ... leaves for r.
UpdatedRow(r, title, description, done) ==
    [r EXCEPT !.title = Coalesce(title, r.title),
              !.description = Coalesce(description, r.description),
              !.done = Coalesce(done, r.done)]

RECURSIVE NatToStr(_)
\* A natural number's decimal digits, as a sequence of characters.
NatToStr(n) ==
    LET d == <<"0", "1", "2", "3", "4", "5", "6", "7", "8", "9">>
    IN IF n < 10 THEN <<d[n + 1]>> ELSE NatToStr(n \div 10) \o <<d[(n % 10) + 1]>>

\* Todo::to_dto: the row with its timestamp rendered as text.
ToDto(r) == [r EXCEPT !.created_at = NatToStr(r.created_at)]

NoWrite ==
    [op |-> "none", id |-> 0, title |-> None, description |-> None,
     done |-> None, outcome |-> "ok", ret |-> None]

\* No call on the users yet.
NoCall == [op |-> "none", id |-> 0, name |-> "", email |-> "", ret |-> None]

\* run_users_server: UserState { users: vec![] }.
UsersIdle ==
    /\ users = <<>>
    /\ ulast = NoCall
    /\ uread = None

TodoIdle ==
    /\ todos = {}
    /\ seq = 0
    /\ clock = 0
    /\ last = NoWrite
    /\ read = None

\* The todo application alone: no conversion router is built.
InitTodo ==
    /\ TodoIdle
    /\ UsersIdle
    /\ router = "none"
    /\ rate = <<0, 1>>
    /\ permits = 1
    /\ pc = <<>>
    /\ path = <<>>
    /\ body = <<>>
    /\ local = <<>>
    /\ resp = <<>>
    /\ lastSet = None
    /\ quiet = <<>>

\* GET /todo/ : get_todos handler over TodoRepoPostgres::get_todos.
\* SELECT * has no ORDER BY: the model keeps the rows, not their order.
GetTodos ==
    /\ read' = Some([op |-> "get_todos", id |-> 0, rows |-> todos,
                     outcome |-> "ok", ret |-> None, body |-> {ToDto(r) : r \in todos}])
    /\ UNCHANGED <<todos, seq, clock, last, rateVars, userVars>>

\* A variant of GetTodo that reads with fetch_one: an empty result panics.
GetTodoFetchOne(id) ==
    /\ \E ret \in (IF WhereId(todos, id) = {} THEN {None}
                   ELSE {Some(r) : r \in WhereId(todos, id)}) :
          read' = Some([op |-> "get_todo", id |-> id, rows |-> {},
                        outcome |-> IF IsSome(ret) THEN "ok" ELSE "panic",
                        ret |-> ret,
                        body |-> IF IsSome(ret) THEN Some(ToDto(ret[1])) ELSE None])
    /\ UNCHANGED <<todos, seq, clock, last, rateVars, userVars>>

\* GET /todo/:id : get_todo handler over TodoRepoPostgres::get_todo.
\* fetch_optional: the first row of the result, or None when it is empty.
GetTodo(id) ==
    /\ \E ret \in (IF WhereId(todos, id) = {} THEN {None}
                   ELSE {Some(r) : r \in WhereId(todos, id)}) :
          read' = Some([op |-> "get_todo", id |-> id, rows |-> {},
                        outcome |-> "ok", ret |-> ret,
                        body |-> IF IsSome(ret) THEN Some(ToDto(ret[1])) ELSE None])
    /\ UNCHANGED <<todos, seq, clock, last, rateVars, userVars>>

\* POST /todo/ : create_todo handler over TodoRepoPostgres::create_todo.
CreateTodo(title, description) ==
    /\ seq < MaxTodos
    /\ clock' = Now(clock)
    /\ todos' = todos \cup
          {InsertedRow(NextVal(seq), title, description, FALSE, Now(clock))}
    /\ seq' = NextVal(seq)
    /\ last' = [op |-> "create_todo", id |-> 0, title |-> Some(title),
                description |-> Some(description), done |-> None,
                outcome |-> "ok", ret |-> Some(NextVal(seq))]
    /\ read' = None
    /\ UNCHANGED <<rateVars, userVars>>

\* A variant of UpdateTodo that runs the statement with execute and answers
\* Some(id) whether or not a row matched.
UpdateTodoAlwaysSome(id, title, description, done) ==
    /\ todos' = (todos \ WhereId(todos, id)) \cup
                {UpdatedRow(r, title, description, done) : r \in WhereId(todos, id)}
    /\ last' = [op |-> "update_todo", id |-> id, title |-> title,
                description |-> description, done |-> done, outcome |-> "ok",
                ret |-> Some(id)]
    /\ read' = None
    /\ UNCHANGED <<seq, clock, rateVars, userVars>>

\* PUT /todo/:id : update_todo handler over TodoRepoPostgres::update_todo.
\* RETURNING id with fetch_optional: the id of a matched row, or None.
UpdateTodo(id, title, description, done) ==
    /\ todos' = (todos \ WhereId(todos, id)) \cup
                {UpdatedRow(r, title, description, done) : r \in WhereId(todos, id)}
    /\ last' = [op |-> "update_todo", id |-> id, title |-> title,
                description |-> description, done |-> done, outcome |-> "ok",
                ret |-> IF WhereId(todos, id) = {} THEN None ELSE Some(id)]
    /\ read' = None
    /\ UNCHANGED <<seq, clock, rateVars, userVars>>

\* A variant of DeleteTodo whose statement selects the row instead of
\* deleting it.
DeleteTodoKeepsRow(id) ==
    /\ todos' = todos
    /\ last' = [op |-> "delete_todo", id |-> id, title |-> None,
                description |-> None, done |-> None,
                outcome |-> IF WhereId(todos, id) = {} THEN "panic" ELSE "ok",
                ret |-> IF WhereId(todos, id) = {} THEN None ELSE Some(id)]
    /\ read' = None
    /\ UNCHANGED <<seq, clock, rateVars, userVars>>

\* A variant of DeleteTodo that reads with fetch_optional and answers the
\* id it was asked to delete when no row matched.
DeleteTodoOptional(id) ==
    /\ todos' = todos \ WhereId(todos, id)
    /\ last' = [op |-> "delete_todo", id |-> id, title |-> None,
                description |-> None, done |-> None,
                outcome |-> "ok", ret |-> Some(id)]
    /\ read' = None
    /\ UNCHANGED <<seq, clock, rateVars, userVars>>

\* DELETE /todo/:id : delete_todo handler over TodoRepoPostgres::delete_todo.
\* RETURNING id with fetch_one: no row is Err(RowNotFound), which unwrap
\* turns into a panic of the request.
DeleteTodo(id) ==
    /\ todos' = todos \ WhereId(todos, id)
    /\ last' = [op |-> "delete_todo", id |-> id, title |-> None,
                description |-> None, done |-> None,
                outcome |-> IF WhereId(todos, id) = {} THEN "panic" ELSE "ok",
                ret |-> IF WhereId(todos, id) = {} THEN None ELSE Some(id)]
    /\ read' = None
    /\ UNCHANGED <<seq, clock, rateVars, userVars>>

NextTodo ==
    \/ GetTodos
    \/ \E id \in Ids : GetTodo(id)
    \/ \E t \in Titles, d \in Descriptions : CreateTodo(t, d)
    \/ \E id \in Ids, t \in Opt(Titles), d \in Opt(NewDescriptions),
          dn \in Opt(BOOLEAN) : UpdateTodo(id, t, d, dn)
    \/ \E id \in Ids : DeleteTodo(id)

SpecTodo == InitTodo /\ [][NextTodo]_vars

(***************************************************************************)
(* The todo repository's contract.                                         *)
(* A write step is one that leaves read empty; a read step leaves a record *)
(* in read. last holds the write request, its arguments and its outcome.   *)
(***************************************************************************)
IsWrite(op) == read' = None /\ last'.op = op
GotTodo(id) == read # None /\ read[1].op = "get_todo" /\ read[1].id = id

\* C1: after create_todo(title, description) returned i, a get_todo(i) with no
\* write in between returns a present record with id i, the supplied title and
\* description, and done = false.
C1_CreateThenGet ==
    (last.op = "create_todo" /\ GotTodo(last.ret[1])) =>
        /\ read[1].outcome = "ok"
        /\ IsSome(read[1].ret)
        /\ read[1].ret[1].id = last.ret[1]
        /\ read[1].ret[1].title = last.title[1]
        /\ read[1].ret[1].description = last.description[1]
        /\ read[1].ret[1].done = FALSE

\* An empty title and a non-empty description were created beside an older
\* row, and the new row was read back.
C1_Witness ==
    /\ last.op = "create_todo"
    /\ last.title = Some("")
    /\ last.description = Some("d")
    /\ GotTodo(last.ret[1])
    /\ IsSome(read[1].ret)
    /\ Cardinality(todos) >= 2

\* C2: update_todo(i, title, description, done) on an existing row i sets each
\* field to the supplied value when the argument is present and keeps the stored
\* value when it is absent; the id and created_at of row i, and every other row,
\* are unchanged.
C2_CoalesceUpdate ==
    [][(IsWrite("update_todo") /\ WhereId(todos, last'.id) # {}) =>
          /\ \A r \in WhereId(todos, last'.id) :
                \E n \in todos' :
                   /\ WhereId(todos', r.id) = {n}
                   /\ n.created_at = r.created_at
                   /\ n.title = (IF IsSome(last'.title) THEN last'.title[1]
                                 ELSE r.title)
                   /\ n.description = (IF IsSome(last'.description)
                                       THEN last'.description[1] ELSE r.description)
                   /\ n.done = (IF IsSome(last'.done) THEN last'.done[1] ELSE r.done)
          /\ (last'.title = None /\ last'.description = None /\ last'.done = None)
                => todos' = todos
          /\ \A r \in todos : r.id # last'.id => r \in todos'
          /\ \A n \in todos' : n.id # last'.id => n \in todos
    ]_vars

\* Only the done flag was supplied, to a row that has a neighbour.
C2_Witness ==
    /\ last.op = "update_todo"
    /\ last.title = None
    /\ last.description = None
    /\ last.done = Some(TRUE)
    /\ IsSome(last.ret)
    /\ Cardinality(todos) >= 2
    /\ \E r \in todos : r.id = last.id /\ r.title = "t" /\ r.done

\* C3: update_todo(i, ...) returns a present identifier exactly when a row with
\* id i exists at the call, and that identifier is i; with no such row it returns
\* absence, does not fail, and leaves the table unchanged.
C3_UpdateReturn ==
    [][IsWrite("update_todo") =>
          /\ IsSome(last'.ret) <=> (WhereId(todos, last'.id) # {})
          /\ IsSome(last'.ret) => last'.ret[1] = last'.id
          /\ ~IsSome(last'.ret) => (last'.outcome = "ok" /\ todos' = todos)
    ]_vars

\* An update named an id that is not in a non-empty table.
C3_Witness ==
    /\ last.op = "update_todo"
    /\ last.ret = None
    /\ last.title # None
    /\ todos # {}

\* C4: after delete_todo(i) returned i for an existing row, a get_todo(i)
\* returns absence, and every row with another id is still present, unchanged.
C4_DeleteThenGet ==
    /\ [](\A id \in Ids :
            (last.op = "delete_todo" /\ last.ret = Some(id) /\ GotTodo(id))
               => (read[1].ret = None /\ read[1].outcome = "ok"))
    /\ [][(IsWrite("delete_todo") /\ WhereId(todos, last'.id) # {}) =>
             /\ last'.outcome = "ok"
             /\ last'.ret = Some(last'.id)
             /\ WhereId(todos', last'.id) = {}
             /\ \A r \in todos : r.id # last'.id => r \in todos'
             /\ \A n \in todos' : n \in todos
       ]_vars

\* A row was deleted beside a surviving one and then asked for.
C4_Witness ==
    /\ last.op = "delete_todo"
    /\ IsSome(last.ret)
    /\ GotTodo(last.id)
    /\ read[1].ret = None
    /\ todos # {}

\* C5: delete_todo(i) with no row i fails the request fatally (it returns
\* neither an identifier nor an absence) and leaves the table unchanged.
C5_DeleteMissingPanics ==
    [][(IsWrite("delete_todo") /\ WhereId(todos, last'.id) = {}) =>
          /\ last'.outcome = "panic"
          /\ last'.ret = None
          /\ todos' = todos
    ]_vars

\* A delete named an id that is not in a non-empty table.
C5_Witness ==
    /\ last.op = "delete_todo"
    /\ last.outcome = "panic"
    /\ todos # {}
    /\ WhereId(todos, last.id) = {}

\* C6: get_todo(i) for an id that is not in the table returns absence as a
\* normal result, and neither get_todo nor get_todos changes the table.
C6_ReadsAreSafe ==
    [][read' # None =>
          /\ todos' = todos
          /\ seq' = seq
          /\ (read'[1].op = "get_todo" /\ WhereId(todos, read'[1].id) = {})
                => (read'[1].ret = None /\ read'[1].body = None
                    /\ read'[1].outcome = "ok")
    ]_vars

\* An id that is not in a non-empty table was asked for.
C6_Witness ==
    /\ read # None
    /\ read[1].op = "get_todo"
    /\ read[1].ret = None
    /\ todos # {}

(***************************************************************************)
(* context.rs: f64 values, parsing and formatting.                         *)
(* An f64 is modelled by the exact non-negative ratio <<n, d>> in lowest   *)
(* terms; <<1, 0>> is inf and <<0, 0>> is NaN. Rounding to 53 bits is not  *)
(* modelled: Format cuts an expansion that does not end at FracDigits      *)
(* digits.                                                                 *)
(***************************************************************************)
NumRequests == 3
FracDigits == 4

RECURSIVE GCD(_, _)
GCD(a, b) == IF b = 0 THEN a ELSE GCD(b, a % b)

Norm(n, d) ==
    IF d = 0 THEN (IF n = 0 THEN <<0, 0>> ELSE <<1, 0>>)
    ELSE <<n \div GCD(n, d), d \div GCD(n, d)>>

\* f64 * f64 and f64 / f64.
Mul(a, b) == Norm(a[1] * b[1], a[2] * b[2])
Div(a, b) == Norm(a[1] * b[2], a[2] * b[1])

Digit == [c \in {"0", "1", "2", "3", "4", "5", "6", "7", "8", "9"} |->
             CASE c = "0" -> 0 [] c = "1" -> 1 [] c = "2" -> 2 [] c = "3" -> 3
               [] c = "4" -> 4 [] c = "5" -> 5 [] c = "6" -> 6 [] c = "7" -> 7
               [] c = "8" -> 8 [] c = "9" -> 9]

AllDigits(str) == \A k \in 1..Len(str) : str[k] \in DOMAIN Digit

RECURSIVE DigitsValue(_)
DigitsValue(str) ==
    IF str = <<>> THEN 0
    ELSE 10 * DigitsValue(SubSeq(str, 1, Len(str) - 1)) + Digit[str[Len(str)]]

RECURSIVE Pow10(_)
Pow10(k) == IF k = 0 THEN 1 ELSE 10 * Pow10(k - 1)

\* str.parse::<f64>() on unsigned decimal text: digits with at most one
\* point and a digit on one side of it, or the texts Format gives inf and
\* NaN. Some(value), or None for Err.
ParseF64(str) ==
    LET dots == {k \in 1..Len(str) : str[k] = "."}
        dot == IF dots = {} THEN Len(str) + 1 ELSE CHOOSE k \in dots : TRUE
        int == SubSeq(str, 1, dot - 1)
        frac == SubSeq(str, dot + 1, Len(str))
    IN IF str = <<"i", "n", "f">> THEN Some(<<1, 0>>)
       ELSE IF str = <<"N", "a", "N">> THEN Some(<<0, 0>>)
       ELSE IF /\ Cardinality(dots) <= 1
          /\ AllDigits(int)
          /\ AllDigits(frac)
          /\ Len(int) + Len(frac) > 0
       THEN Some(Norm(DigitsValue(int) * Pow10(Len(frac)) + DigitsValue(frac),
                      Pow10(Len(frac))))
       ELSE None

RECURSIVE FracStr(_, _, _)
\* The digits of r / d after the point, r < d, at most k of them.
FracStr(r, d, k) ==
    IF r = 0 \/ k = 0 THEN <<>>
    ELSE NatToStr((r * 10) \div d) \o FracStr((r * 10) % d, d, k - 1)

\* format!("{}", x) for an f64: no point when the value is whole.
Format(x) ==
    IF x = <<0, 0>> THEN <<"N", "a", "N">>
    ELSE IF x[2] = 0 THEN <<"i", "n", "f">>
    ELSE IF x[1] % x[2] = 0 THEN NatToStr(x[1] \div x[2])
    ELSE NatToStr(x[1] \div x[2]) \o <<".">> \o FracStr(x[1] % x[2], x[2], FracDigits)

\* A handler's return value: the text, or a panic out of unwrap().
Ok(text) == [outcome |-> "ok", text |-> text]
Panic == [outcome |-> "panic", text |-> <<>>]

\* convert_usd_to_gbp and convert_gbp_to_usd.
ConvertUsdToGbp(usd, gbp_to_usd_rate) ==
    IF IsSome(ParseF64(usd)) THEN Ok(Format(Mul(ParseF64(usd)[1], gbp_to_usd_rate)))
    ELSE Panic
ConvertGbpToUsd(gbp, gbp_to_usd_rate) ==
    IF IsSome(ParseF64(gbp)) THEN Ok(Format(Div(ParseF64(gbp)[1], gbp_to_usd_rate)))
    ELSE Panic

\* usd_to_gbp_handler and gbp_to_usd_handler (State<f64>).
UsdToGbpHandler(gbp_to_usd_rate, usd) ==
    IF IsSome(ParseF64(usd)) THEN Ok(Format(Mul(ParseF64(usd)[1], gbp_to_usd_rate)))
    ELSE Panic
GbpToUsdHandler(gbp_to_usd_rate, gbp) ==
    IF IsSome(ParseF64(gbp)) THEN Ok(Format(Div(ParseF64(gbp)[1], gbp_to_usd_rate)))
    ELSE Panic

\* The bodies of mutable_usd_to_gbp_handler and mutable_gbp_to_usd_handler
\* once the guard is held.
MutableUsdToGbp(guard, str) ==
    IF IsSome(ParseF64(str)) THEN Ok(Format(Mul(ParseF64(str)[1], guard)))
    ELSE Panic
MutableGbpToUsd(guard, str) ==
    IF IsSome(ParseF64(str)) THEN Ok(Format(Div(ParseF64(str)[1], guard)))
    ELSE Panic

(***************************************************************************)
(* context.rs, exercise 4: the router over State<Arc<Mutex<f64>>>.         *)
(***************************************************************************)
Requests == 1..NumRequests

\* let gbp_to_usd_rate = Arc::new(Mutex::new(1.3))
InitialRate == <<13, 10>>

ConvPaths == {"usd_to_gbp", "gbp_to_usd"}
ConvBodies == {<<"1", "0", "0">>, <<"2">>, <<"x">>}
SetBodies == {<<"2">>, <<"0", ".", "5">>, <<"x">>}

IsConv(h) == path[h] \in ConvPaths
IsSet(h) == path[h] = "set_exchange_rate"
InFlight(h) == pc[h] \notin {"idle", "done", "panicked"}
\* The handlers whose MutexGuard is live.
Holders == {h \in Requests : pc[h] \in {"locked", "computed", "unwinding", "written"}}

NoRequests ==
    /\ pc = [h \in Requests |-> "idle"]
    /\ path = [h \in Requests |-> "none"]
    /\ body = [h \in Requests |-> <<>>]
    /\ local = [h \in Requests |-> None]
    /\ resp = [h \in Requests |-> None]
    /\ quiet = [h \in Requests |-> None]

InitRate ==
    /\ TodoIdle
    /\ UsersIdle
    /\ router = "mutable_state"
    /\ rate = InitialRate
    /\ permits = 1
    /\ lastSet = None
    /\ NoRequests

\* A request reaches the router and its handler is called. Requests are
\* numbered in the order they arrive.
Start(h, p, b) ==
    /\ pc[h] = "idle"
    /\ IF h = 1 THEN TRUE ELSE pc[h - 1] # "idle"
    /\ pc' = [pc EXCEPT ![h] = "start"]
    /\ path' = [path EXCEPT ![h] = p]
    /\ body' = [body EXCEPT ![h] = b]
    /\ quiet' = [k \in Requests |->
                    IF k = h
                    THEN (IF p \in ConvPaths /\ ~\E s \in Requests : IsSet(s) /\ InFlight(s)
                          THEN lastSet ELSE None)
                    ELSE IF p = "set_exchange_rate" /\ InFlight(k) THEN None
                    ELSE quiet[k]]
    /\ UNCHANGED <<todoVars, userVars, router, rate, permits, local, resp, lastSet>>

\* A variant of Lock that takes the guard without waiting for the permit.
LockNoWait(h) ==
    /\ pc[h] = (IF IsSet(h) THEN "parsed" ELSE "start")
    /\ path[h] # "none"
    /\ permits' = 0
    /\ pc' = [pc EXCEPT ![h] = "locked"]
    /\ UNCHANGED <<todoVars, userVars, router, rate, path, body, local, resp, lastSet, quiet>>

\* rate.lock().await completes: the handler takes the Mutex's one permit.
\* A handler that finds no permit stays where it is.
Lock(h) ==
    /\ pc[h] = (IF IsSet(h) THEN "parsed" ELSE "start")
    /\ path[h] # "none"
    /\ permits = 1
    /\ permits' = 0
    /\ pc' = [pc EXCEPT ![h] = "locked"]
    /\ UNCHANGED <<todoVars, userVars, router, rate, path, body, local, resp, lastSet, quiet>>

\* mutable_usd_to_gbp_handler / mutable_gbp_to_usd_handler under the guard:
\* parse the body, read *guard, format the result.
Compute(h) ==
    /\ IsConv(h)
    /\ pc[h] = "locked"
    /\ LET r == IF path[h] = "usd_to_gbp" THEN MutableUsdToGbp(rate, body[h])
                ELSE MutableGbpToUsd(rate, body[h])
       IN /\ pc' = [pc EXCEPT ![h] = IF r.outcome = "ok" THEN "computed"
                                     ELSE "unwinding"]
          /\ resp' = [resp EXCEPT ![h] = Some(r)]
    /\ local' = [local EXCEPT ![h] = Some(rate)]
    /\ UNCHANGED <<todoVars, userVars, router, rate, permits, path, body, lastSet, quiet>>

\* set_exchange_rate_handler before the lock: body.parse::<f64>().unwrap().
ParseRate(h) ==
    /\ IsSet(h)
    /\ pc[h] = "start"
    /\ IF IsSome(ParseF64(body[h]))
       THEN /\ pc' = [pc EXCEPT ![h] = "parsed"]
            /\ local' = [local EXCEPT ![h] = ParseF64(body[h])]
            /\ resp' = resp
       ELSE /\ pc' = [pc EXCEPT ![h] = "panicked"]
            /\ local' = local
            /\ resp' = [resp EXCEPT ![h] = Some(Panic)]
    /\ UNCHANGED <<todoVars, userVars, router, rate, permits, path, body, lastSet, quiet>>

\* A variant of Write that multiplies the stored rate by the new one.
WriteScaled(h) ==
    /\ IsSet(h)
    /\ pc[h] = "locked"
    /\ rate' = Mul(rate, local[h][1])
    /\ pc' = [pc EXCEPT ![h] = "written"]
    /\ UNCHANGED <<todoVars, userVars, router, permits, path, body, local, resp, lastSet, quiet>>

\* A variant of Write that assigns to a copy of the rate.
WriteToCopy(h) ==
    /\ IsSet(h)
    /\ pc[h] = "locked"
    /\ rate' = rate
    /\ pc' = [pc EXCEPT ![h] = "written"]
    /\ UNCHANGED <<todoVars, userVars, router, permits, path, body, local, resp, lastSet, quiet>>

\* set_exchange_rate_handler under the guard: *guard = new_rate.
Write(h) ==
    /\ IsSet(h)
    /\ pc[h] = "locked"
    /\ rate' = local[h][1]
    /\ pc' = [pc EXCEPT ![h] = "written"]
    /\ UNCHANGED <<todoVars, userVars, router, permits, path, body, local, resp, lastSet, quiet>>

\* A variant of Unlock in which a handler that unwinds from a panic never
\* gives its permit back.
UnlockLeaksOnPanic(h) ==
    /\ pc[h] \in {"computed", "unwinding", "written"}
    /\ permits' = IF pc[h] = "unwinding" THEN permits ELSE permits + 1
    /\ pc' = [pc EXCEPT ![h] = IF pc[h] = "unwinding" THEN "panicked" ELSE "done"]
    /\ resp' = [resp EXCEPT ![h] = IF pc[h] = "written" THEN Some(Ok(<<>>)) ELSE @]
    /\ lastSet' = IF pc[h] = "written" THEN local[h] ELSE lastSet
    /\ UNCHANGED <<todoVars, userVars, router, rate, path, body, local, quiet>>

\* The handler returns (or unwinds) and its guard is dropped: the permit
\* goes back and the request is complete.
Unlock(h) ==
    /\ pc[h] \in {"computed", "unwinding", "written"}
    /\ permits' = permits + 1
    /\ pc' = [pc EXCEPT ![h] = IF pc[h] = "unwinding" THEN "panicked" ELSE "done"]
    /\ resp' = [resp EXCEPT ![h] = IF pc[h] = "written" THEN Some(Ok(<<>>)) ELSE @]
    /\ lastSet' = IF pc[h] = "written" THEN local[h] ELSE lastSet
    /\ UNCHANGED <<todoVars, userVars, router, rate, path, body, local, quiet>>

NextRate ==
    \/ \E h \in Requests :
          \/ \E p \in ConvPaths, b \in ConvBodies : Start(h, p, b)
          \/ \E b \in SetBodies : Start(h, "set_exchange_rate", b)
    \/ \E h \in Requests : Lock(h)
    \/ \E h \in Requests : Compute(h)
    \/ \E h \in Requests : ParseRate(h)
    \/ \E h \in Requests : Write(h)
    \/ \E h \in Requests : Unlock(h)

SpecRate == InitRate /\ [][NextRate]_vars

(***************************************************************************)
(* The mutable-State router's contract.                                    *)
(***************************************************************************)
Amount(h) == ParseF64(body[h])[1]
\* What a conversion of request h's amount at rate r answers.
Converted(h, r) ==
    IF path[h] = "usd_to_gbp" THEN Ok(Format(Mul(Amount(h), r)))
    ELSE Ok(Format(Div(Amount(h), r)))
\* The initial rate and every rate a set request has stored so far.
RatesStored ==
    {InitialRate} \cup
    {ParseF64(body[s])[1] : s \in {k \in Requests : IsSet(k) /\ pc[k] \in {"written", "done"}}}
Answered(h) == IsConv(h) /\ resp[h] # None /\ resp[h][1].outcome = "ok"

\* C7: however set_exchange_rate requests interleave with conversions, every
\* conversion computes its result from exactly one of the rates the mutex has
\* held (the old rate or a new one), never from any other value.
C7_OldOrNewRate ==
    \A h \in Requests :
       Answered(h) =>
          /\ local[h][1] \in RatesStored
          /\ resp[h][1] = Converted(h, local[h][1])

\* A conversion that arrived before a set request answered with the new rate.
C7_Witness ==
    \E h, s \in Requests :
       /\ h < s
       /\ IsConv(h) /\ path[h] = "usd_to_gbp" /\ pc[h] = "done"
       /\ IsSet(s) /\ body[s] = <<"2">>
       /\ body[h] = <<"1", "0", "0">>
       /\ resp[h] = Some(Ok(<<"2", "0", "0">>))

\* C8: at most one handler holds the rate mutex, and a conversion handler does
\* not get past lock() while a set handler holds the guard.
C8_MutualExclusion ==
    /\ [](Cardinality(Holders) <= 1 /\ permits = 1 - Cardinality(Holders))
    /\ [][\A h \in Requests :
             (IsConv(h) /\ pc[h] = "start" /\ pc'[h] # "start")
                => ~\E s \in Requests : IsSet(s) /\ pc[s] \in {"locked", "written"}
       ]_vars

\* A conversion waits at lock() while a set handler holds the guard.
C8_Witness ==
    \E h, s \in Requests :
       /\ IsConv(h) /\ pc[h] = "start"
       /\ IsSet(s) /\ pc[s] = "written"
       /\ permits = 0

\* C9: a GET /usd_to_gbp with body a that starts after a POST
\* /set_exchange_rate with body r has completed, no other set request being in
\* flight since, answers a * r; and whenever a conversion reads the rate, it
\* reads the one written by the set request that completed last.
C9_RateAfterSet ==
    /\ [](\A h \in Requests :
            (Answered(h) /\ path[h] = "usd_to_gbp" /\ quiet[h] # None)
               => resp[h][1] = Ok(Format(Mul(Amount(h), quiet[h][1]))))
    /\ [][\A h \in Requests :
             (IsConv(h) /\ pc[h] = "locked" /\ pc'[h] = "computed" /\ lastSet # None)
                => (local'[h] = lastSet /\ resp'[h][1] = Converted(h, lastSet[1]))
       ]_vars

\* The exercise's test: POST "2" completes, then GET /usd_to_gbp "100" is "200".
C9_Witness ==
    \E h \in Requests :
       /\ path[h] = "usd_to_gbp"
       /\ pc[h] = "done"
       /\ body[h] = <<"1", "0", "0">>
       /\ quiet[h] = Some(<<2, 1>>)
       /\ resp[h] = Some(Ok(<<"2", "0", "0">>))

(***************************************************************************)
(* context.rs, exercises 1 to 3: the routers that share an immutable rate: *)
(* by closure capture, by Arc<Mutex<f64>> closure capture and by State.    *)
(***************************************************************************)
Routers == {"closure", "arc_closure", "state"}
\* The rate a router is built with; the tests build it with 1.3.
Rates == {InitialRate, <<2, 1>>}

InitRouters ==
    /\ TodoIdle
    /\ UsersIdle
    /\ router \in Routers
    /\ rate \in Rates
    /\ permits = 1
    /\ lastSet = None
    /\ NoRequests

\* closure_shared_context: each route's closure, called with its copy of the
\* rate. The closure on /usd_to_gbp calls convert_gbp_to_usd and the one on
\* /gbp_to_usd calls convert_usd_to_gbp.
ClosureHandle(h) ==
    /\ router = "closure"
    /\ pc[h] = "start"
    /\ LET r == IF path[h] = "usd_to_gbp" THEN ConvertGbpToUsd(body[h], rate)
                ELSE ConvertUsdToGbp(body[h], rate)
       IN /\ pc' = [pc EXCEPT ![h] = IF r.outcome = "ok" THEN "done" ELSE "panicked"]
          /\ resp' = [resp EXCEPT ![h] = Some(r)]
    /\ local' = [local EXCEPT ![h] = Some(rate)]
    /\ UNCHANGED <<todoVars, userVars, router, rate, permits, path, body, lastSet, quiet>>

\* state_shared_context: usd_to_gbp_handler and gbp_to_usd_handler, called
\* with the State<f64> the router was given.
StateHandle(h) ==
    /\ router = "state"
    /\ pc[h] = "start"
    /\ LET r == IF path[h] = "usd_to_gbp" THEN UsdToGbpHandler(rate, body[h])
                ELSE GbpToUsdHandler(rate, body[h])
       IN /\ pc' = [pc EXCEPT ![h] = IF r.outcome = "ok" THEN "done" ELSE "panicked"]
          /\ resp' = [resp EXCEPT ![h] = Some(r)]
    /\ local' = [local EXCEPT ![h] = Some(rate)]
    /\ UNCHANGED <<todoVars, userVars, router, rate, permits, path, body, lastSet, quiet>>

\* shared_mutable_context: arc1.lock().await / arc2.lock().await completes.
ArcLock(h) ==
    /\ router = "arc_closure"
    /\ pc[h] = "start"
    /\ permits = 1
    /\ permits' = 0
    /\ pc' = [pc EXCEPT ![h] = "locked"]
    /\ UNCHANGED <<todoVars, userVars, router, rate, path, body, local, resp, lastSet, quiet>>

\* shared_mutable_context: the closure's call under the guard.
ArcCompute(h) ==
    /\ router = "arc_closure"
    /\ pc[h] = "locked"
    /\ LET r == IF path[h] = "usd_to_gbp" THEN ConvertUsdToGbp(body[h], rate)
                ELSE ConvertGbpToUsd(body[h], rate)
       IN /\ pc' = [pc EXCEPT ![h] = IF r.outcome = "ok" THEN "computed"
                                     ELSE "unwinding"]
          /\ resp' = [resp EXCEPT ![h] = Some(r)]
    /\ local' = [local EXCEPT ![h] = Some(rate)]
    /\ UNCHANGED <<todoVars, userVars, router, rate, permits, path, body, lastSet, quiet>>

\* shared_mutable_context: the closure returns or unwinds; the guard is dropped.
ArcUnlock(h) ==
    /\ router = "arc_closure"
    /\ pc[h] \in {"computed", "unwinding"}
    /\ permits' = permits + 1
    /\ pc' = [pc EXCEPT ![h] = IF pc[h] = "unwinding" THEN "panicked" ELSE "done"]
    /\ UNCHANGED <<todoVars, userVars, router, rate, path, body, local, resp, lastSet, quiet>>

NextRouters ==
    \/ \E h \in Requests, p \in ConvPaths, b \in ConvBodies : Start(h, p, b)
    \/ \E h \in Requests : ClosureHandle(h)
    \/ \E h \in Requests : StateHandle(h)
    \/ \E h \in Requests : ArcLock(h)
    \/ \E h \in Requests : ArcCompute(h)
    \/ \E h \in Requests : ArcUnlock(h)

SpecRouters == InitRouters /\ [][NextRouters]_vars

\* C10: in each implemented state-sharing variant (closure capture, Arc<Mutex>
\* closure capture, State extractor), GET /usd_to_gbp with numeric body a on a
\* router built with rate r answers a * r; 100 at rate 1.3 gives "130".
C10_UsdToGbpMultiplies ==
    \A h \in Requests :
       (router \in Routers /\ path[h] = "usd_to_gbp" /\ pc[h] = "done")
          => resp[h] = Some(Ok(Format(Mul(Amount(h), rate))))

\* The same statement for the two variants other than closure capture.
UsdToGbpMultipliesElsewhere ==
    \A h \in Requests :
       (router \in {"arc_closure", "state"} /\ path[h] = "usd_to_gbp" /\ pc[h] = "done")
          => resp[h] = Some(Ok(Format(Mul(Amount(h), rate))))

(***************************************************************************)
(* context.rs: the conversions as a pair of operations on one rate. A      *)
(* first amount is converted, and each answer is sent back through the     *)
(* opposite conversion of the same pair at the same rate.                  *)
(***************************************************************************)
\* The pairs: convert_usd_to_gbp / convert_gbp_to_usd, usd_to_gbp_handler /
\* gbp_to_usd_handler, mutable_usd_to_gbp_handler / mutable_gbp_to_usd_handler.
Pairs == {"convert", "state", "mutable_state"}
RoundTripRates == {InitialRate, <<2, 1>>, <<1, 2>>, <<0, 1>>}
RoundTripBodies == {<<"1", "0", "0">>, <<"2">>, <<"0", ".", "5">>, <<"0">>, <<"x">>}

Opposite(p) == IF p = "usd_to_gbp" THEN "gbp_to_usd" ELSE "usd_to_gbp"

\* A variant of GbpToUsd in which the gbp-to-usd direction multiplies too.
GbpToUsdMultiplies(pair, r, str) ==
    CASE pair = "convert" -> ConvertUsdToGbp(str, r)
      [] pair = "state" -> UsdToGbpHandler(r, str)
      [] pair = "mutable_state" -> MutableUsdToGbp(r, str)

\* The usd-to-gbp and the gbp-to-usd operation of a pair, at rate r.
UsdToGbp(pair, r, str) ==
    CASE pair = "convert" -> ConvertUsdToGbp(str, r)
      [] pair = "state" -> UsdToGbpHandler(r, str)
      [] pair = "mutable_state" -> MutableUsdToGbp(r, str)
GbpToUsd(pair, r, str) ==
    CASE pair = "convert" -> ConvertGbpToUsd(str, r)
      [] pair = "state" -> GbpToUsdHandler(r, str)
      [] pair = "mutable_state" -> MutableGbpToUsd(r, str)

Convert(pair, p, r, str) ==
    IF p = "usd_to_gbp" THEN UsdToGbp(pair, r, str) ELSE GbpToUsd(pair, r, str)

InitRoundTrip ==
    /\ TodoIdle
    /\ UsersIdle
    /\ router \in Pairs
    /\ rate \in RoundTripRates
    /\ permits = 1
    /\ lastSet = None
    /\ NoRequests

\* The first conversion, of an amount the client chooses.
FirstLeg(p, b) ==
    /\ pc[1] = "idle"
    /\ LET r == Convert(router, p, rate, b)
       IN /\ pc' = [pc EXCEPT ![1] = IF r.outcome = "ok" THEN "done" ELSE "panicked"]
          /\ resp' = [resp EXCEPT ![1] = Some(r)]
    /\ path' = [path EXCEPT ![1] = p]
    /\ body' = [body EXCEPT ![1] = b]
    /\ local' = [local EXCEPT ![1] = Some(rate)]
    /\ UNCHANGED <<todoVars, userVars, router, rate, permits, lastSet, quiet>>

\* The answer of conversion h - 1 is converted back.
NextLeg(h) ==
    /\ h > 1
    /\ pc[h] = "idle"
    /\ pc[h - 1] = "done"
    /\ LET r == Convert(router, Opposite(path[h - 1]), rate, resp[h - 1][1].text)
       IN /\ pc' = [pc EXCEPT ![h] = IF r.outcome = "ok" THEN "done" ELSE "panicked"]
          /\ resp' = [resp EXCEPT ![h] = Some(r)]
    /\ path' = [path EXCEPT ![h] = Opposite(path[h - 1])]
    /\ body' = [body EXCEPT ![h] = resp[h - 1][1].text]
    /\ local' = [local EXCEPT ![h] = Some(rate)]
    /\ UNCHANGED <<todoVars, userVars, router, rate, permits, lastSet, quiet>>

NextRoundTrip ==
    \/ \E p \in ConvPaths, b \in RoundTripBodies : FirstLeg(p, b)
    \/ \E h \in Requests : NextLeg(h)

SpecRoundTrip == InitRoundTrip /\ [][NextRoundTrip]_vars

\* A decimal value of at most FracDigits digits after the point, counted in
\* units of the last digit Format prints.
IsDecimal(x) == x[2] # 0 /\ Pow10(FracDigits) % x[2] = 0
Units(x) == x[1] * (Pow10(FracDigits) \div x[2])
Distance(x, y) == IF Units(x) >= Units(y) THEN Units(x) - Units(y)
                  ELSE Units(y) - Units(x)
\* Whether k units are within the tolerance of one round trip at rate r: each
\* of the two answers is cut by less than a unit, and the first cut is scaled
\* by r or by 1 / r, so the bound is 1 + max(r, 1 / r) units.
WithinTolerance(k, r) ==
    k * (IF r[1] <= r[2] THEN r[1] ELSE r[2]) <= r[1] + r[2]

MaxUsers == 3

UserIds == {1, 2}
Names == {"n", "m"}
Emails == {"e", "f"}

\* users.iter().position(|user| user.id == id): the first index, 0 for None.
Position(list, id) ==
    IF \E k \in 1..Len(list) : list[k].id = id
    THEN CHOOSE k \in 1..Len(list) :
            list[k].id = id /\ \A j \in 1..(k - 1) : list[j].id # id
    ELSE 0

\* Vec::remove(idx).
Remove(list, idx) == SubSeq(list, 1, idx - 1) \o SubSeq(list, idx + 1, Len(list))

\* The users application alone.
InitUsers == InitTodo

\* get_users: a clone of the list.
GetUsers ==
    /\ uread' = Some([op |-> "get_users", id |-> 0, ret |-> None, list |-> users])
    /\ UNCHANGED <<todoVars, rateVars, users, ulast>>

\* get_user: users.iter().find(|user| user.id == id).cloned().
GetUser(id) ==
    /\ uread' = Some([op |-> "get_user", id |-> id,
                      ret |-> IF Position(users, id) = 0 THEN None
                              ELSE Some(users[Position(users, id)]),
                      list |-> <<>>])
    /\ UNCHANGED <<todoVars, rateVars, users, ulast>>

\* create_user: the new user's id is the literal 1.
CreateUser(name, email) ==
    /\ Len(users) < MaxUsers
    /\ users' = Append(users, [id |-> 1, name |-> name, email |-> email])
    /\ ulast' = [op |-> "create_user", id |-> 0, name |-> name, email |-> email,
                 ret |-> Some([id |-> 1, name |-> name, email |-> email])]
    /\ uread' = None
    /\ UNCHANGED <<todoVars, rateVars>>

\* A variant of UpdateUser that rewrites every user with the id.
UpdateUserAll(id, name, email) ==
    /\ users' = [k \in 1..Len(users) |->
                    IF users[k].id = id
                    THEN [id |-> users[k].id, name |-> name, email |-> email]
                    ELSE users[k]]
    /\ ulast' = [op |-> "update_user", id |-> id, name |-> name, email |-> email,
                 ret |-> IF Position(users, id) = 0 THEN None
                         ELSE Some([id |-> id, name |-> name, email |-> email])]
    /\ uread' = None
    /\ UNCHANGED <<todoVars, rateVars>>

\* update_user: the user at the first position with the id is replaced.
UpdateUser(id, name, email) ==
    /\ LET idx == Position(users, id)
           new_user == [id |-> users[idx].id, name |-> name, email |-> email]
       IN IF idx = 0
          THEN /\ users' = users
               /\ ulast' = [op |-> "update_user", id |-> id, name |-> name,
                            email |-> email, ret |-> None]
          ELSE /\ users' = [users EXCEPT ![idx] = new_user]
               /\ ulast' = [op |-> "update_user", id |-> id, name |-> name,
                            email |-> email, ret |-> Some(new_user)]
    /\ uread' = None
    /\ UNCHANGED <<todoVars, rateVars>>

\* delete_user: the user at the first position with the id is removed.
DeleteUser(id) ==
    /\ LET idx == Position(users, id)
       IN IF idx = 0
          THEN /\ users' = users
               /\ ulast' = [op |-> "delete_user", id |-> id, name |-> "",
                            email |-> "", ret |-> None]
          ELSE /\ users' = Remove(users, idx)
               /\ ulast' = [op |-> "delete_user", id |-> id, name |-> "",
                            email |-> "", ret |-> Some("()")]
    /\ uread' = None
    /\ UNCHANGED <<todoVars, rateVars>>

NextUsers ==
    \/ GetUsers
    \/ \E id \in UserIds : GetUser(id)
    \/ \E n \in Names, e \in Emails : CreateUser(n, e)
    \/ \E id \in UserIds, n \in Names, e \in Emails : UpdateUser(id, n, e)
    \/ \E id \in UserIds : DeleteUser(id)

SpecUsers == InitUsers /\ [][NextUsers]_vars

\* C12: after any sequence of create_user, update_user and delete_user calls
\* from the empty list, no two users in the list have the same identifier.
C12_UniqueUserIds ==
    \A i, j \in 1..Len(users) : i # j => users[i].id # users[j].id

\* C13: after delete_user(id) has completed, with Some or with None, a
\* get_user(id) with no create_user in between returns None.
C13_DeleteUserThenGet ==
    (ulast.op = "delete_user" /\ uread # None /\ uread[1].op = "get_user"
        /\ uread[1].id = ulast.id)
       => uread[1].ret = None

\* C14: update_user(id, body) on a list with a user of that id replaces the name
\* and email of exactly one user, the first with that id, keeps its id and its
\* position, leaves the length and every other user unchanged and returns the
\* updated user; with no such user it returns None and the list is unchanged.
C14_UpdateUserFrame ==
    [][(uread' = None /\ ulast'.op = "update_user") =>
          IF \E k \in 1..Len(users) : users[k].id = ulast'.id
          THEN \E idx \in 1..Len(users) :
                  /\ users[idx].id = ulast'.id
                  /\ \A k \in 1..(idx - 1) : users[k].id # ulast'.id
                  /\ Len(users') = Len(users)
                  /\ users'[idx] = [id |-> users[idx].id, name |-> ulast'.name,
                                    email |-> ulast'.email]
                  /\ \A k \in 1..Len(users) : k # idx => users'[k] = users[k]
                  /\ ulast'.ret = Some(users'[idx])
          ELSE ulast'.ret = None /\ users' = users
    ]_vars

\* The first of two users with the same id was rewritten; the second was not.
C14_Witness ==
    /\ ulast.op = "update_user"
    /\ IsSome(ulast.ret)
    /\ Len(users) >= 2
    /\ users[1].name = ulast.name /\ users[1].email = ulast.email
    /\ users[2].id = ulast.id
    /\ users[2].name # ulast.name

(***************************************************************************)
(* The mutable-State router under fair scheduling: the runtime polls every *)
(* handler that can take a step, and the Mutex hands its permit to a       *)
(* handler that keeps waiting for it. Requests arrive or not.              *)
(***************************************************************************)
\* The step Compute(h) takes, told by the handler's position alone: the
\* conversion is total, so Compute(h) is enabled exactly when a converting
\* handler is at "locked", and no other step of NextRate moves it from there.
ComputeStep(h) ==
    /\ IsConv(h)
    /\ pc[h] = "locked"
    /\ \E v \in {"computed", "unwinding"} : pc' = [pc EXCEPT ![h] = v]

\* The step ParseRate(h) takes, told the same way: parse() returns on every
\* body, so ParseRate(h) is enabled exactly when a set handler is at "start".
ParseRateStep(h) ==
    /\ IsSet(h)
    /\ pc[h] = "start"
    /\ \E v \in {"parsed", "panicked"} : pc' = [pc EXCEPT ![h] = v]

FairHandlers ==
    \A h \in Requests :
       /\ WF_vars(Lock(h))
       /\ WF_pc(ComputeStep(h))
       /\ WF_pc(ParseRateStep(h))
       /\ WF_vars(Write(h))
       /\ WF_vars(Unlock(h))

SpecRateFair == InitRate /\ [][NextRate]_vars /\ FairHandlers

\* The handler is at rate.lock().await.
AtLock(h) == path[h] # "none" /\ pc[h] = (IF IsSet(h) THEN "parsed" ELSE "start")
Finished(h) == pc[h] \in {"done", "panicked"}
\* The set_exchange_rate bodies on which body.parse::<f64>() is an Err.
NonNumeric == {b \in SetBodies : ParseF64(b) = None}
BadSet(h) == IsSet(h) /\ body[h] \in NonNumeric

\* C15: under fair scheduling every handler that requests the rate mutex
\* eventually acquires it and eventually releases it, also when a conversion
\* handler panics on a non-numeric body while holding it; the lock is free once
\* every request has finished; a set_exchange_rate request with a non-numeric
\* body panics before taking the lock and leaves the rate unchanged.
C15_LockLiveness ==
    /\ \A h \in Requests : AtLock(h) ~> (h \in Holders)
    /\ \A h \in Requests : (h \in Holders) ~> (Finished(h) /\ h \notin Holders)
    /\ \A h \in Requests : (pc[h] = "unwinding") ~> (pc[h] = "panicked")
    /\ []((\A h \in Requests : ~InFlight(h)) => permits = 1)
    /\ [](\A h \in Requests :
            BadSet(h) => pc[h] \in {"start", "panicked"})
    /\ \A h \in Requests :
          (BadSet(h) /\ pc[h] = "start") ~> (pc[h] = "panicked")
    /\ [][\A h \in Requests :
             (IsSet(h) /\ pc[h] = "start" /\ pc'[h] = "panicked")
                => (rate' = rate /\ permits' = permits)
       ]_vars

\* A conversion panicked under the guard, a set request panicked before the
\* lock, a later conversion still got the lock, and the lock is free.
C15_Witness ==
    /\ \E h \in Requests : IsConv(h) /\ pc[h] = "panicked"
    /\ \E h \in Requests : IsSet(h) /\ pc[h] = "panicked"
    /\ \E h, k \in Requests :
          k < h /\ IsConv(k) /\ pc[k] = "panicked" /\ IsConv(h) /\ pc[h] = "done"
    /\ \A h \in Requests : Finished(h)
    /\ permits = 1

====
